---- MODULE Spec2Model ----
(***************************************************************************)
(* A model of the DNS wire-format codec of natedns (package dns): the      *)
(* header, name, question, resource-record and message decoders and        *)
(* encoders, and the resolver's decode-then-encode use of them.            *)
(*                                                                         *)
(* Bytes are the integers 0..255.  A Go string and the contents of a Go    *)
(* []byte are both sequences of bytes.  A []byte value is a record         *)
(* [nil, bytes] so that the nil slice the encoders return is told from an  *)
(* empty one.  Every buffer has len = cap, as the buffers the resolver     *)
(* makes have.  A call that panics yields a record with status "panic"     *)
(* and the panic value.                                                    *)
(***************************************************************************)
EXTENDS Integers, Sequences, FiniteSets, TLC

VARIABLES call, arg, mid, ret

vars == <<call, arg, mid, ret>>

\* ------------------------------------------------------------------------
\* Integer helpers for the fixed-width arithmetic of the code.

RECURSIVE Pow2(_)
Pow2(n) == IF n = 0 THEN 1 ELSE 2 * Pow2(n - 1)

RECURSIVE BitAnd(_, _)
BitAnd(x, y) ==
    IF x = 0 \/ y = 0 THEN 0
    ELSE (x % 2) * (y % 2) + 2 * BitAnd(x \div 2, y \div 2)

RECURSIVE BitOr(_, _)
BitOr(x, y) ==
    IF x = 0 THEN y
    ELSE IF y = 0 THEN x
    ELSE (IF x % 2 = 1 \/ y % 2 = 1 THEN 1 ELSE 0) + 2 * BitOr(x \div 2, y \div 2)

Shr(x, k) == x \div Pow2(k)

\* x << k on a uint8: the bits shifted out are lost
Shl8(x, k) == (x * Pow2(k)) % 256

U8(x) == x % 256

\* ------------------------------------------------------------------------
\* Go values

NilSlice == [nil |-> TRUE, bytes |-> <<>>]

Slice(bs) == [nil |-> FALSE, bytes |-> bs]

SliceBoundsPanic == "runtime error: slice bounds out of range"

IndexPanic == "runtime error: index out of range"

ErrorInvalidQNameLength == "qname: buffer is empty"

Panic(e) == [status |-> "panic", err |-> e]

Drop(b, n) == SubSeq(b, n + 1, Len(b))

\* ------------------------------------------------------------------------
\* Header

QrMask == 32768
OPCodeMask == 30720
AAMask == 1024
TCMask == 512
RDMask == 256
RAMask == 128
ZMask == 64
RCodeMask == 63

\* binary.BigEndian.Uint16(b[0:2]), b[2:]
read16(b) ==
    IF Len(b) < 2 THEN Panic(SliceBoundsPanic)
    ELSE [status |-> "ok", v |-> b[1] * 256 + b[2], rest |-> Drop(b, 2)]

\* A uint32 is the record of its high and low 16-bit halves: TLC's integers
\* are 32-bit signed and cannot hold every uint32.
U32(h, l) == [hi |-> h, lo |-> l]

\* uint8((v >> sh) & 0xff) of a uint32 v, for sh in {0, 8, 16, 24}
byteOf32(v, sh) ==
    IF sh >= 16 THEN BitAnd(Shr(v.hi, sh - 16), 255)
    ELSE BitAnd(Shr(v.lo, sh), 255)

\* binary.BigEndian.Uint32(b[0:4]), b[4:]
read32(b) ==
    IF Len(b) < 4 THEN Panic(SliceBoundsPanic)
    ELSE [status |-> "ok",
          v |-> U32(b[1] * 256 + b[2], b[3] * 256 + b[4]),
          rest |-> Drop(b, 4)]

NewHeader(b) ==
    LET rid == read16(b) IN
    IF rid.status = "panic" THEN rid ELSE
    LET rq == read16(rid.rest) IN
    IF rq.status = "panic" THEN rq ELSE
    LET qinfo == rq.v
        r1 == read16(rq.rest) IN
    IF r1.status = "panic" THEN r1 ELSE
    LET r2 == read16(r1.rest) IN
    IF r2.status = "panic" THEN r2 ELSE
    LET r3 == read16(r2.rest) IN
    IF r3.status = "panic" THEN r3 ELSE
    LET r4 == read16(r3.rest) IN
    IF r4.status = "panic" THEN r4 ELSE
    [status |-> "ok",
     hdr |-> [id |-> rid.v,
              qr |-> U8(Shr(BitAnd(qinfo, QrMask), 15)),
              opcode |-> U8(Shr(BitAnd(qinfo, OPCodeMask), 11)),
              aa |-> U8(Shr(BitAnd(qinfo, AAMask), 10)),
              tc |-> U8(Shr(BitAnd(qinfo, TCMask), 9)),
              rd |-> U8(Shr(BitAnd(qinfo, RDMask), 8)),
              ra |-> U8(Shr(BitAnd(qinfo, RAMask), 7)),
              z |-> U8(Shr(BitAnd(qinfo, ZMask), 6)),
              rcode |-> U8(BitAnd(qinfo, RCodeMask)),
              questions |-> r1.v,
              answers |-> r2.v,
              authorities |-> r3.v,
              additionals |-> r4.v],
     rest |-> r4.rest]

headerFlagsByte(hdr) ==
    BitOr(hdr.rd,
      BitOr(Shl8(hdr.tc, 1),
        BitOr(Shl8(hdr.aa, 2),
          BitOr(Shl8(hdr.opcode, 3), Shl8(hdr.ra, 7)))))

headerWrite(hdr) ==
    Slice(<< U8(Shr(hdr.id, 8)),
             U8(BitAnd(hdr.id, 255)),
             headerFlagsByte(hdr),
             hdr.rcode,
             U8(Shr(hdr.questions, 8)),
             U8(BitAnd(hdr.questions, 255)),
             U8(Shr(hdr.answers, 8)),
             U8(BitAnd(hdr.answers, 255)),
             U8(Shr(hdr.authorities, 8)),
             U8(BitAnd(hdr.authorities, 255)),
             U8(Shr(hdr.additionals, 8)),
             U8(BitAnd(hdr.additionals, 255)) >>)

\* ------------------------------------------------------------------------
\* Strings: string(byte) and the runes a range loop over a string yields

RuneError == 65533

Dot == 46

MaxLabelLen == 63

\* string(buff[pos]): the UTF-8 encoding of the rune with the byte's value
stringOfByte(c) ==
    IF c < 128 THEN <<c>> ELSE << 192 + (c \div 64), 128 + (c % 64) >>

isCont(s, i, lo, hi) == i <= Len(s) /\ s[i] >= lo /\ s[i] <= hi

\* the rune starting at index i of s and the number of bytes it takes
decodeRune(s, i) ==
    LET c0 == s[i]
        bad == [r |-> RuneError, w |-> 1]
    IN
    IF c0 < 128 THEN [r |-> c0, w |-> 1]
    ELSE IF c0 >= 194 /\ c0 <= 223 THEN
        IF isCont(s, i + 1, 128, 191)
        THEN [r |-> (c0 % 32) * 64 + (s[i + 1] % 64), w |-> 2]
        ELSE bad
    ELSE IF c0 >= 224 /\ c0 <= 239 THEN
        LET lo == IF c0 = 224 THEN 160 ELSE 128
            hi == IF c0 = 237 THEN 159 ELSE 191
        IN
        IF isCont(s, i + 1, lo, hi) /\ isCont(s, i + 2, 128, 191)
        THEN [r |-> ((c0 % 16) * 64 + (s[i + 1] % 64)) * 64 + (s[i + 2] % 64),
              w |-> 3]
        ELSE bad
    ELSE IF c0 >= 240 /\ c0 <= 244 THEN
        LET lo == IF c0 = 240 THEN 144 ELSE 128
            hi == IF c0 = 244 THEN 143 ELSE 191
        IN
        IF /\ isCont(s, i + 1, lo, hi)
           /\ isCont(s, i + 2, 128, 191)
           /\ isCont(s, i + 3, 128, 191)
        THEN [r |-> (((c0 % 8) * 64 + (s[i + 1] % 64)) * 64
                       + (s[i + 2] % 64)) * 64 + (s[i + 3] % 64),
              w |-> 4]
        ELSE bad
    ELSE bad

\* for _, by := range label { b = append(b, uint8(by)) }
RECURSIVE runeBytes(_, _)
runeBytes(label, i) ==
    IF i > Len(label) THEN <<>>
    ELSE LET d == decodeRune(label, i)
         IN <<U8(d.r)>> \o runeBytes(label, i + d.w)

Min(S) == CHOOSE x \in S : \A y \in S : x <= y

\* strings.Index(s, "."), counted from 1; 0 when there is none
indexOfDot(s) ==
    LET dots == {i \in 1..Len(s) : s[i] = Dot}
    IN IF dots = {} THEN 0 ELSE Min(dots)

\* strings.Split(qname, ".")
RECURSIVE split(_)
split(s) ==
    LET i == indexOfDot(s)
    IN IF i = 0 THEN <<s>>
       ELSE <<SubSeq(s, 1, i - 1)>> \o split(Drop(s, i))

\* ------------------------------------------------------------------------
\* Name codec

RECURSIVE writeLabels(_, _, _)
writeLabels(s, k, b) ==
    IF k > Len(s) THEN Slice(b \o <<0>>)
    ELSE LET label == s[k]
             l == Len(label)
         IN IF l > MaxLabelLen THEN NilSlice
            ELSE writeLabels(s, k + 1, (b \o <<U8(l)>>) \o runeBytes(label, 1))

writeQName(qname) == writeLabels(split(qname), 1, <<>>)

\* string(buff[lo]) + ... + string(buff[hi]), indices counted from 1
RECURSIVE stringOfBytes(_, _, _)
stringOfBytes(buff, lo, hi) ==
    IF lo > hi THEN <<>>
    ELSE IF lo = hi THEN stringOfByte(buff[lo])
    ELSE LET m == (lo + hi) \div 2
         IN stringOfBytes(buff, lo, m) \o stringOfBytes(buff, m + 1, hi)

\* The number of iterations in a row, from position pos on, that only append
\* a byte: they go on until labelLen has run out, a zero byte is met or the
\* buffer ends.
runLength(buff, pos, labelLen) ==
    LET stops == ({i \in pos..(Len(buff) - 1) : buff[i + 1] = 0}
                    \cup {Len(buff)}) \cup {pos + labelLen}
    IN Min(stops) - pos

\* The for loop of readQName; pos counts from 0 as in the code.  The
\* iterations that only append a byte (labelLen # 0) are taken a run at a
\* time: each of them adds string(buff[pos]) to str, takes 1 from labelLen
\* and adds 1 to pos.
RECURSIVE readLoop(_, _, _, _)
readLoop(buff, pos, labelLen, str) ==
    IF pos >= Len(buff) THEN Panic(IndexPanic)
    ELSE IF buff[pos + 1] = 0 THEN [status |-> "ok", str |-> str, pos |-> pos]
    ELSE IF labelLen = 0 THEN
        IF pos + 1 >= Len(buff) THEN Panic(IndexPanic)
        ELSE readLoop(buff, pos + 2, U8(buff[pos + 1] - 1),
                      (str \o <<Dot>>) \o stringOfByte(buff[pos + 2]))
    ELSE LET n == runLength(buff, pos, labelLen)
         IN readLoop(buff, pos + n, U8(labelLen - n),
                     str \o stringOfBytes(buff, pos + 1, pos + n))

readQName(b) ==
    IF Len(b) < 1 THEN Panic(IndexPanic)
    ELSE
    LET labelLen == b[1]
        buff == Drop(b, 1)
    IN
    IF labelLen > MaxLabelLen THEN Panic(ErrorInvalidQNameLength)
    ELSE IF Len(buff) < 1 THEN Panic(ErrorInvalidQNameLength)
    ELSE
    LET r == readLoop(buff, 0, labelLen, <<>>)
    IN
    IF r.status = "panic" THEN r
    ELSE IF Len(r.str) < 1 THEN Panic(ErrorInvalidQNameLength)
    ELSE [status |-> "ok", name |-> r.str, rest |-> Drop(buff, r.pos)]

\* ------------------------------------------------------------------------
\* Question

\* the distance newQuestion skips in the remainder readQName hands back
QuestionSkip == 12

newQuestion(b0) ==
    LET rn == readQName(b0) IN
    IF rn.status = "panic" THEN rn ELSE
    LET b == rn.rest IN
    IF Len(b) < 1 THEN Panic(IndexPanic) ELSE
    IF Len(b) < QuestionSkip THEN Panic(SliceBoundsPanic) ELSE
    LET rt == read16(Drop(b, QuestionSkip)) IN
    IF rt.status = "panic" THEN rt ELSE
    LET rc == read16(rt.rest) IN
    IF rc.status = "panic" THEN rc ELSE
    [status |-> "ok",
     q |-> [qname |-> rn.name, qtype |-> rt.v, qclass |-> rc.v],
     rest |-> rc.rest]

\* the buffer question.Write builds and then drops
questionBuff(q) ==
    writeQName(q.qname).bytes
      \o << U8(Shr(q.qtype, 8)), U8(BitAnd(q.qtype, 255)),
            U8(Shr(q.qclass, 8)), U8(BitAnd(q.qclass, 255)) >>

\* buff is built and never returned: the function ends in "return nil"
questionWrite(q) ==
    LET buff == questionBuff(q)
    IN NilSlice

\* ------------------------------------------------------------------------
\* Resource record

\* newResourceRecord with rdlength read before ttl
newResourceRecordLengthFirst(b) ==
    LET r1 == read16(b) IN
    IF r1.status = "panic" THEN r1 ELSE
    LET r2 == read16(r1.rest) IN
    IF r2.status = "panic" THEN r2 ELSE
    LET r4 == read16(r2.rest) IN
    IF r4.status = "panic" THEN r4 ELSE
    LET r3 == read32(r4.rest) IN
    IF r3.status = "panic" THEN r3 ELSE
    LET r5 == read32(r3.rest) IN
    IF r5.status = "panic" THEN r5 ELSE
    [status |-> "ok",
     rr |-> [name |-> <<>>, rtype |-> r1.v, class |-> r2.v, ttl |-> r3.v,
             length |-> r4.v, rdata |-> r5.v],
     rest |-> r5.rest]

newResourceRecord(b) ==
    LET r1 == read16(b) IN
    IF r1.status = "panic" THEN r1 ELSE
    LET r2 == read16(r1.rest) IN
    IF r2.status = "panic" THEN r2 ELSE
    LET r3 == read32(r2.rest) IN
    IF r3.status = "panic" THEN r3 ELSE
    LET r4 == read16(r3.rest) IN
    IF r4.status = "panic" THEN r4 ELSE
    LET r5 == read32(r4.rest) IN
    IF r5.status = "panic" THEN r5 ELSE
    [status |-> "ok",
     rr |-> [name |-> <<>>, rtype |-> r1.v, class |-> r2.v, ttl |-> r3.v,
             length |-> r4.v, rdata |-> r5.v],
     rest |-> r5.rest]

resourceRecordWrite(rr) ==
    LET bb == writeQName(rr.name).bytes
        r == << U8(Shr(rr.rtype, 8)), U8(BitAnd(rr.rtype, 255)),
                U8(Shr(rr.class, 8)), U8(BitAnd(rr.class, 255)),
                byteOf32(rr.ttl, 24), byteOf32(rr.ttl, 16),
                byteOf32(rr.ttl, 8), byteOf32(rr.ttl, 0),
                U8(Shr(rr.length, 8)), U8(BitAnd(rr.length, 255)),
                byteOf32(rr.rdata, 24), byteOf32(rr.rdata, 16),
                byteOf32(rr.rdata, 8), byteOf32(rr.rdata, 0) >>
    IN Slice(r \o bb)

\* ------------------------------------------------------------------------
\* Message

NewMessage(b0) ==
    LET rh == NewHeader(b0) IN
    IF rh.status = "panic" THEN rh ELSE
    LET rq == newQuestion(rh.rest) IN
    IF rq.status = "panic" THEN rq ELSE
    LET rr == newResourceRecord(rq.rest) IN
    IF rr.status = "panic" THEN rr ELSE
    [status |-> "ok",
     m |-> [hdr |-> rh.hdr,
            q |-> rq.q,
            rr |-> [rr.rr EXCEPT !.name = rq.q.qname]]]

MessageWrite(m) ==
    Slice((headerWrite(m.hdr).bytes \o questionWrite(m.q).bytes)
            \o resourceRecordWrite(m.rr).bytes)

\* ------------------------------------------------------------------------
\* Inputs

MaxShortLabel == 2

MaxLabels == 2

MaxRawLen == 5

MaxTail == 30

MaxPad == 12

Fill(x, n) == [i \in 1..n |-> x]

Ramp(n) == [i \in 1..n |-> i]

Take(b, n) == SubSeq(b, 1, n)

SeqsUpTo(S, n) == UNION {[1..k -> S] : k \in 0..n}

Counts == {<<1, 0, 0, 0>>, <<258, 772, 1286, 65535>>}

Headers ==
    {[id |-> i, qr |-> f[1], opcode |-> o, aa |-> f[2], tc |-> f[3],
      rd |-> f[4], ra |-> f[5], z |-> f[6], rcode |-> r,
      questions |-> c[1], answers |-> c[2], authorities |-> c[3],
      additionals |-> c[4]] :
        i \in {43981}, f \in [1..6 -> 0..1], o \in 0..15, r \in 0..15,
        c \in Counts}

SampleHeaders ==
    {h \in Headers : /\ h.opcode \in {0, 15} /\ h.rcode \in {0, 3}
                     /\ h.aa = 0 /\ h.tc = 0 /\ h.z = 0
                     /\ h.questions = 1}

\* label bytes: NUL, 'a', 'b', a lone Latin-1 byte, and the UTF-8 pair of U+00E9
LabelBytes == {0, 97, 98, 233, 195, 169}

ShortLabels == SeqsUpTo(LabelBytes, MaxShortLabel)

LongLabels == {Fill(97, n) : n \in {MaxLabelLen - 1, MaxLabelLen, MaxLabelLen + 1}}

\* a 35-byte label whose second byte is NUL
NulLabel == <<97, 0>> \o Fill(98, 33)

Labels == ShortLabels \cup LongLabels

RECURSIVE joinLabels(_)
joinLabels(ls) ==
    IF Len(ls) = 1 THEN ls[1]
    ELSE (ls[1] \o <<Dot>>) \o joinLabels(Tail(ls))

LabelSeqs == UNION {[1..k -> Labels] : k \in 1..MaxLabels}

Names == {joinLabels(ls) : ls \in LabelSeqs}

ExampleCom == <<101, 120, 97, 109, 112, 108, 101, 46, 99, 111, 109>>

SampleLabelSeqs ==
    { <<<<97>>>>, <<<<97>>, <<98>>>>, <<<<233>>>>,
      <<Fill(97, MaxLabelLen)>>, <<<<97>>, Fill(97, MaxLabelLen + 1)>>,
      <<NulLabel>>,
      << <<101, 120, 97, 109, 112, 108, 101>>, <<99, 111, 109>> >> }

SampleNames == {joinLabels(ls) : ls \in SampleLabelSeqs}

Questions == [qname : Names, qtype : {1, 258}, qclass : {1, 772}]

ResourceRecords ==
    [name : SampleNames, rtype : {1, 258}, class : {1, 772},
     ttl : {U32(0, 3600), U32(258, 772), U32(65535, 65535)},
     length : {4, 1286},
     rdata : {U32(32512, 1), U32(1800, 2314)}]

Messages ==
    {[hdr |-> h, q |-> [qname |-> n, qtype |-> 1, qclass |-> 1],
      rr |-> [name |-> n2, rtype |-> 1, class |-> 1, ttl |-> U32(0, 3600),
              length |-> 4, rdata |-> U32(32512, 1)]] :
        h \in SampleHeaders, n \in SampleNames, n2 \in SampleNames}

\* the RFC 1035 wire form of a sequence of labels
RECURSIVE wireLabels(_)
wireLabels(ls) ==
    IF Len(ls) = 0 THEN <<0>>
    ELSE (<<Len(ls[1])>> \o ls[1]) \o wireLabels(Tail(ls))

RawBytes == {0, 1, 2, 64, 97}

RawBufs == SeqsUpTo(RawBytes, MaxRawLen)

WireLabelSeqs == SampleLabelSeqs \cup UNION {[1..k -> {<<97>>, <<98, 0>>}] : k \in 1..MaxLabels}

NameBufs ==
    RawBufs \cup {wireLabels(ls) \o Ramp(k) : ls \in WireLabelSeqs, k \in 0..MaxTail}

HeaderBytes ==
    { <<0, 1, 1, 0, 0, 1, 0, 0, 0, 0, 0, 0>>,
      <<171, 205, 129, 128, 0, 1, 0, 1, 0, 0, 0, 0>> }

FlagLows == {0, 3, 15, 16, 48, 63, 64, 255}

HeaderBufs ==
    {Take(h \o Ramp(2), n) : h \in HeaderBytes, n \in 0..14}
      \cup {<<0, 1, hi, lo, 0, 1, 0, 0, 0, 0, 0, 0>> : hi \in 0..255, lo \in FlagLows}

QuestionTail == <<0, 1, 0, 1>>

RecordTail == <<0, 1, 0, 1, 0, 0, 14, 16, 0, 4, 127, 0, 0, 1>>

RecordBufs == {Take(RecordTail \o Ramp(2), n) : n \in 0..16}
                \cup {Ramp(14), Fill(255, 14)}

WellFormed ==
    {((h \o wireLabels(ls)) \o QuestionTail) \o RecordTail :
        h \in HeaderBytes, ls \in SampleLabelSeqs}

MessageBufs ==
    UNION {{Take(w \o Fill(0, MaxPad), n) : n \in 0..(Len(w) + MaxPad)} :
             w \in WellFormed}

\* ------------------------------------------------------------------------
\* The calls.  One call is made on an input; a decode may be followed by the
\* encode of its result and an encode by the decode of its result, as the
\* resolver does with NewMessage and Message.Write.

None == [status |-> "none"]

Init ==
    /\ call = "start"
    /\ arg = None
    /\ mid = None
    /\ ret = None

CallHeaderWrite ==
    /\ call = "start"
    /\ \E h \in Headers :
         /\ call' = "header.Write"
         /\ arg' = h
         /\ mid' = None
         /\ ret' = headerWrite(h)

CallNewHeader ==
    /\ call = "start"
    /\ \E b \in HeaderBufs :
         /\ call' = "NewHeader"
         /\ arg' = b
         /\ mid' = None
         /\ ret' = NewHeader(b)

HeaderRoundTrip ==
    /\ call = "header.Write"
    /\ call' = "NewHeader(header.Write)"
    /\ arg' = arg
    /\ mid' = ret
    /\ ret' = NewHeader(ret.bytes)

CallWriteQName ==
    /\ call = "start"
    /\ \E n \in Names :
         /\ call' = "writeQName"
         /\ arg' = n
         /\ mid' = None
         /\ ret' = writeQName(n)

CallReadQName ==
    /\ call = "start"
    /\ \E b \in NameBufs :
         /\ call' = "readQName"
         /\ arg' = b
         /\ mid' = None
         /\ ret' = readQName(b)

NameRoundTrip ==
    /\ call = "writeQName"
    /\ ~ret.nil
    /\ call' = "readQName(writeQName)"
    /\ arg' = arg
    /\ mid' = ret
    /\ ret' = readQName(ret.bytes)

CallNewQuestion ==
    /\ call = "start"
    /\ \E b \in NameBufs :
         /\ call' = "newQuestion"
         /\ arg' = b
         /\ mid' = None
         /\ ret' = newQuestion(b)

\* q, b := newQuestion(b); rr, b := newResourceRecord(b)
RecordAfterQuestion ==
    /\ call = "newQuestion"
    /\ ret.status = "ok"
    /\ call' = "newResourceRecord(newQuestion)"
    /\ arg' = arg
    /\ mid' = ret
    /\ ret' = newResourceRecord(ret.rest)

CallQuestionWrite ==
    /\ call = "start"
    /\ \E q \in Questions :
         /\ call' = "question.Write"
         /\ arg' = q
         /\ mid' = None
         /\ ret' = questionWrite(q)

CallNewResourceRecord ==
    /\ call = "start"
    /\ \E b \in RecordBufs :
         /\ call' = "newResourceRecord"
         /\ arg' = b
         /\ mid' = None
         /\ ret' = newResourceRecord(b)

CallResourceRecordWrite ==
    /\ call = "start"
    /\ \E rr \in ResourceRecords :
         /\ call' = "resourceRecord.Write"
         /\ arg' = rr
         /\ mid' = None
         /\ ret' = resourceRecordWrite(rr)

CallNewMessage ==
    /\ call = "start"
    /\ \E b \in MessageBufs :
         /\ call' = "NewMessage"
         /\ arg' = b
         /\ mid' = None
         /\ ret' = NewMessage(b)

CallMessageWrite ==
    /\ call = "start"
    /\ \E m \in Messages :
         /\ call' = "Message.Write"
         /\ arg' = m
         /\ mid' = None
         /\ ret' = MessageWrite(m)

\* message := dns.NewMessage(bb); nb := message.Write()
MessageRoundTrip ==
    /\ call = "NewMessage"
    /\ ret.status = "ok"
    /\ call' = "Message.Write(NewMessage)"
    /\ arg' = arg
    /\ mid' = ret
    /\ ret' = MessageWrite(ret.m)

Next ==
    \/ CallHeaderWrite
    \/ CallNewHeader
    \/ HeaderRoundTrip
    \/ CallWriteQName
    \/ CallReadQName
    \/ NameRoundTrip
    \/ CallNewQuestion
    \/ RecordAfterQuestion
    \/ CallQuestionWrite
    \/ CallNewResourceRecord
    \/ CallResourceRecordWrite
    \/ CallNewMessage
    \/ CallMessageWrite
    \/ MessageRoundTrip

Spec == Init /\ [][Next]_vars

\* ------------------------------------------------------------------------
\* What the wire format asks of a buffer, for the hypotheses of the properties

\* every label of the dotted name is 1..63 bytes long
ValidName(n) ==
    \A k \in 1..Len(split(n)) :
        Len(split(n)[k]) >= 1 /\ Len(split(n)[k]) <= MaxLabelLen

TooLongName(n) == \E k \in 1..Len(split(n)) : Len(split(n)[k]) > MaxLabelLen

\* Walks the length bytes of the name that starts at index i of b.  Yields
\* the index of the terminating zero byte when the name is a valid one of at
\* least one label, and otherwise says what is wrong.
RECURSIVE wireWalk(_, _, _)
wireWalk(b, i, n) ==
    IF i > Len(b) THEN [kind |-> "short", at |-> i]
    ELSE IF b[i] = 0 THEN
        IF n = 0 THEN [kind |-> "empty", at |-> i]
        ELSE [kind |-> "name", at |-> i]
    ELSE IF b[i] > MaxLabelLen THEN [kind |-> "badlen", at |-> i]
    ELSE IF i + b[i] > Len(b) THEN [kind |-> "short", at |-> i]
    ELSE wireWalk(b, i + b[i] + 1, n + 1)

HeaderLen == 12

QuestionFixedLen == 4

RecordFixedLen == 14

\* the buffer ends before a field of the message it starts
Truncated(b) ==
    \/ Len(b) < HeaderLen
    \/ /\ Len(b) >= HeaderLen
       /\ LET w == wireWalk(b, HeaderLen + 1, 0)
          IN \/ w.kind = "short"
             \/ /\ w.kind = "name"
                /\ Len(b) - w.at < QuestionFixedLen + RecordFixedLen

\* header, valid name, qtype, qclass and the 14-byte record, and nothing else
WellFormedMessage(b) ==
    /\ Len(b) >= HeaderLen
    /\ LET w == wireWalk(b, HeaderLen + 1, 0)
       IN /\ w.kind = "name"
          /\ Len(b) - w.at = QuestionFixedLen + RecordFixedLen

BE16(v) == << v \div 256, v % 256 >>

\* ------------------------------------------------------------------------
\* Properties

\* C1: decoding the 12 bytes header.Write produces for a header h gives back
\* h in every field, with no bytes remaining.
HeaderRoundTripLaw ==
    call = "NewHeader(header.Write)" =>
        /\ ret.status = "ok"
        /\ ret.hdr = arg
        /\ ret.rest = <<>>

\* C2: for a dotted name whose labels are each 1..63 bytes, readQName of the
\* output of writeQName returns the name and an empty remainder.
NameRoundTripLaw ==
    /\ (call = "writeQName" /\ ValidName(arg)) => ~ret.nil
    /\ (call = "readQName(writeQName)" /\ ValidName(arg)) =>
           /\ ret.status = "ok"
           /\ ret.name = arg
           /\ ret.rest = <<>>

\* C3: for a well-formed buffer (header, encoded name, qtype, qclass, 14-byte
\* record tail) NewMessage succeeds and Message.Write of its result is the
\* buffer again, byte for byte.
MessageRoundTripLaw ==
    /\ (call = "NewMessage" /\ WellFormedMessage(arg)) => ret.status = "ok"
    /\ (call = "Message.Write(NewMessage)" /\ WellFormedMessage(arg)) =>
           ret.bytes = arg

\* C4: bytes 2-3 of header.Write's output, as a big-endian word, are
\* qr<<15 | opcode<<11 | aa<<10 | tc<<9 | rd<<8 | ra<<7 | z<<6 | rcode.
FlagPackingLaw ==
    call = "header.Write" =>
        ret.bytes[3] * 256 + ret.bytes[4]
            = arg.qr * 32768 + arg.opcode * 2048 + arg.aa * 1024
                + arg.tc * 512 + arg.rd * 256 + arg.ra * 128 + arg.z * 64
                + arg.rcode

\* C5: when a length byte of the name, the first or a later one, is greater
\* than 63, readQName fails with its invalid-length error and returns no
\* name; a name whose length byte is exactly 63 is decoded.
LabelLengthLaw ==
    /\ (call = "readQName" /\ wireWalk(arg, 1, 0).kind = "badlen") =>
           /\ ret.status = "panic"
           /\ ret.err = ErrorInvalidQNameLength
    /\ (call = "readQName" /\ Len(arg) > 0 /\ arg[1] = MaxLabelLen
          /\ wireWalk(arg, 1, 0).kind = "name") =>
           ret.status = "ok"

\* C6: when the first byte of the name is 0x00, whatever follows, readQName
\* fails with its empty-name error and returns no name.
EmptyNameLaw ==
    (call = "readQName" /\ Len(arg) > 0 /\ arg[1] = 0) =>
        /\ ret.status = "panic"
        /\ ret.err = ErrorInvalidQNameLength

\* C7: writeQName succeeds when no label is longer than 63 bytes and fails
\* when one is; when it fails the question, resource-record and message
\* encoders fail too, and never return bytes with the name left out.
LabelLimitLaw ==
    /\ (call = "writeQName" /\ ~TooLongName(arg)) => ~ret.nil
    /\ (call = "writeQName" /\ TooLongName(arg)) => ret.nil
    /\ (call = "question.Write" /\ TooLongName(arg.qname)) => ret.nil
    /\ (call = "resourceRecord.Write" /\ TooLongName(arg.name)) => ret.nil
    /\ (call = "Message.Write"
          /\ (TooLongName(arg.q.qname) \/ TooLongName(arg.rr.name))) => ret.nil

\* C8: for a buffer that ends before a field being read, NewMessage reports
\* the failure to its caller and returns no Message.  A panic is the only
\* way NewMessage has to report anything but a Message, so every panic is
\* taken here for the report.
TruncatedInputLaw ==
    (call = "NewMessage" /\ Truncated(arg)) => ret.status = "panic"

\* C9: for a buffer that starts with a valid encoded name followed by at
\* least four bytes, newQuestion takes qtype from the two bytes after the
\* name's terminating zero byte, qclass from the next two, and returns the
\* bytes after those as the remainder.
QuestionOffsetsLaw ==
    (call = "newQuestion" /\ wireWalk(arg, 1, 0).kind = "name"
       /\ Len(arg) - wireWalk(arg, 1, 0).at >= QuestionFixedLen) =>
        LET after == Drop(arg, wireWalk(arg, 1, 0).at)
        IN /\ ret.status = "ok"
           /\ ret.q.qtype = after[1] * 256 + after[2]
           /\ ret.q.qclass = after[3] * 256 + after[4]
           /\ ret.rest = Drop(after, QuestionFixedLen)

\* C10: for a question with a valid name, question.Write returns the encoded
\* name, then qtype and qclass as two big-endian bytes each; the output is
\* four bytes longer than the encoded name and never empty.
QuestionWriteLaw ==
    (call = "question.Write" /\ ValidName(arg.qname)) =>
        /\ ~ret.nil
        /\ ret.bytes = (writeQName(arg.qname).bytes \o BE16(arg.qtype))
                          \o BE16(arg.qclass)
        /\ Len(ret.bytes) = Len(writeQName(arg.qname).bytes) + QuestionFixedLen

\* the four bytes of a uint32, most significant first
BE32(v) == BE16(v.hi) \o BE16(v.lo)

\* C11: for a resource record with a valid name, resourceRecord.Write emits
\* the encoded name first and then rtype, class, ttl, rdlength and rdata,
\* big-endian, in that order.
RecordWriteOrderLaw ==
    (call = "resourceRecord.Write" /\ ValidName(arg.name)) =>
        /\ ~ret.nil
        /\ ret.bytes =
             ((((writeQName(arg.name).bytes \o BE16(arg.rtype))
                  \o BE16(arg.class)) \o BE32(arg.ttl))
                \o BE16(arg.length)) \o BE32(arg.rdata)

\* C12: for every flags word, NewHeader yields opcode = bits 14..11 and
\* rcode = the low 4 bits, both in 0..15, and z = bit 6 alone.
HeaderFieldWidthLaw ==
    (call = "NewHeader" /\ ret.status = "ok") =>
        LET w == arg[3] * 256 + arg[4]
        IN /\ ret.hdr.opcode = (w \div 2048) % 16
           /\ ret.hdr.rcode = w % 16
           /\ ret.hdr.opcode \in 0..15
           /\ ret.hdr.rcode \in 0..15
           /\ ret.hdr.z = (w \div 64) % 2

\* what the first 14 bytes of b spell as rtype, class, ttl, rdlength, rdata
RecordFields(b) ==
    [name |-> <<>>,
     rtype |-> b[1] * 256 + b[2],
     class |-> b[3] * 256 + b[4],
     ttl |-> U32(b[5] * 256 + b[6], b[7] * 256 + b[8]),
     length |-> b[9] * 256 + b[10],
     rdata |-> U32(b[11] * 256 + b[12], b[13] * 256 + b[14])]

\* C13: in every Message NewMessage returns, the record's name is the
\* question's name; newResourceRecord reads no name and, given at least 14
\* bytes, takes exactly 14 as rtype, class, ttl, rdlength, rdata, big-endian,
\* also when its input is the remainder newQuestion leaves.
MessageAssemblyLaw ==
    /\ (call = "NewMessage" /\ ret.status = "ok") =>
           ret.m.rr.name = ret.m.q.qname
    /\ call = "newResourceRecord" =>
           /\ ret.status = "ok" <=> Len(arg) >= RecordFixedLen
           /\ ret.status = "ok" =>
                /\ ret.rr = RecordFields(arg)
                /\ ret.rest = Drop(arg, RecordFixedLen)
    /\ call = "newResourceRecord(newQuestion)" =>
           /\ ret.status = "ok" <=> Len(mid.rest) >= RecordFixedLen
           /\ ret.status = "ok" =>
                /\ ret.rr = RecordFields(mid.rest)
                /\ ret.rest = Drop(mid.rest, RecordFixedLen)

\* a Message decoded from a buffer holding the name example.com
MessageAssemblyWitness ==
    /\ call = "NewMessage"
    /\ ret.status = "ok"
    /\ ret.m.q.qname = ExampleCom
    /\ ret.m.rr.name = ExampleCom

====
